---- MODULE Spec2Model ----
(***************************************************************************)
(* The input-handler state machine of input_handlers.py.                   *)
(*                                                                         *)
(* One step of the model is one call of handle_events on the active        *)
(* handler: dispatch of the event to ev_keydown / ev_mousebuttondown /     *)
(* ev_mousemotion / ev_quit, then handle_action, then the choice of the    *)
(* next active handler.  The collaborators that live outside the file      *)
(* (Action.perform, Engine.handle_enemy_turn, the targeting callback,      *)
(* item.consumable.get_action, the level's stat increases) are             *)
(* nondeterministic choices over the results their interface allows.       *)
(***************************************************************************)
EXTENDS Integers, Sequences, FiniteSets, TLC

VARIABLES
    handler,         \* the active handler (the host loop's handler variable)
    player,          \* engine.player: x, y, is_alive, requires_level_up, items
    message_log,     \* engine.message_log.messages
    mouse_location,  \* engine.mouse_location
    save_file,       \* "savegame.sav": "unchecked" until on_quit looks for it
    signal           \* the exception that left handle_events, "none" while running

vars == <<handler, player, message_log, mouse_location, save_file, signal>>

-----------------------------------------------------------------------------
(* Bounds of the model. *)

MapWidth == 2
MapHeight == 1
MaxLog == 2
MaxItems == 1
MaxPopups == 1

-----------------------------------------------------------------------------
(* tcod.event.KeySym: the key symbols the file names, with SDL's key codes *)
(* (key - KeySym.a is integer arithmetic on them).                         *)

KeySym ==
    [ UP |-> 1073741906, DOWN |-> 1073741905, LEFT |-> 1073741904,
      RIGHT |-> 1073741903, HOME |-> 1073741898, END |-> 1073741901,
      PAGEUP |-> 1073741899, PAGEDOWN |-> 1073741902,
      KP_1 |-> 1073741913, KP_2 |-> 1073741914, KP_3 |-> 1073741915,
      KP_4 |-> 1073741916, KP_5 |-> 1073741917, KP_6 |-> 1073741918,
      KP_7 |-> 1073741919, KP_8 |-> 1073741920, KP_9 |-> 1073741921,
      KP_ENTER |-> 1073741912, CLEAR |-> 1073741980,
      RETURN |-> 13, ESCAPE |-> 27, TAB |-> 9, PERIOD |-> 46, SLASH |-> 47,
      a |-> 97, b |-> 98, c |-> 99, d |-> 100, g |-> 103, h |-> 104,
      i |-> 105, j |-> 106, k |-> 107, l |-> 108, n |-> 110, u |-> 117,
      v |-> 118, y |-> 121, z |-> 122, LEFTBRACE |-> 123,
      LCTRL |-> 1073742048, LSHIFT |-> 1073742049, LALT |-> 1073742050,
      RCTRL |-> 1073742052, RSHIFT |-> 1073742053, RALT |-> 1073742054 ]

(* MOVE_KEYS as a set of <<key, <<dx, dy>>>> pairs. *)
MOVE_KEYS_ITEMS ==
    { <<KeySym.UP, <<0, -1>>>>, <<KeySym.DOWN, <<0, 1>>>>,
      <<KeySym.LEFT, <<-1, 0>>>>, <<KeySym.RIGHT, <<1, 0>>>>,
      <<KeySym.HOME, <<-1, -1>>>>, <<KeySym.END, <<-1, 1>>>>,
      <<KeySym.PAGEUP, <<1, -1>>>>, <<KeySym.PAGEDOWN, <<1, 1>>>>,
      <<KeySym.KP_1, <<-1, 1>>>>, <<KeySym.KP_2, <<0, 1>>>>,
      <<KeySym.KP_3, <<1, 1>>>>, <<KeySym.KP_4, <<-1, 0>>>>,
      <<KeySym.KP_6, <<1, 0>>>>, <<KeySym.KP_7, <<-1, -1>>>>,
      <<KeySym.KP_8, <<0, -1>>>>, <<KeySym.KP_9, <<1, -1>>>>,
      <<KeySym.h, <<-1, 0>>>>, <<KeySym.j, <<0, 1>>>>,
      <<KeySym.k, <<0, -1>>>>, <<KeySym.l, <<1, 0>>>>,
      <<KeySym.y, <<-1, -1>>>>, <<KeySym.u, <<1, -1>>>>,
      <<KeySym.b, <<-1, 1>>>>, <<KeySym.n, <<1, 1>>>> }

MOVE_KEYS_DOMAIN == { kv[1] : kv \in MOVE_KEYS_ITEMS }

MOVE_KEYS == [ key \in MOVE_KEYS_DOMAIN |->
                 (CHOOSE kv \in MOVE_KEYS_ITEMS : kv[1] = key)[2] ]

WAIT_KEYS == { KeySym.PERIOD, KeySym.KP_5, KeySym.CLEAR }

CONFIRM_KEYS == { KeySym.RETURN, KeySym.KP_ENTER }

CURSOR_Y_KEYS_ITEMS ==
    { <<KeySym.UP, -1>>, <<KeySym.DOWN, 1>>,
      <<KeySym.PAGEUP, -10>>, <<KeySym.PAGEDOWN, 10>> }

CURSOR_Y_KEYS_DOMAIN == { kv[1] : kv \in CURSOR_Y_KEYS_ITEMS }

CURSOR_Y_KEYS == [ key \in CURSOR_Y_KEYS_DOMAIN |->
                     (CHOOSE kv \in CURSOR_Y_KEYS_ITEMS : kv[1] = key)[2] ]

(* The pure modifier keys AskUserEventHandler.ev_keydown ignores. *)
MODIFIER_KEYS == { KeySym.LSHIFT, KeySym.RSHIFT, KeySym.LCTRL,
                   KeySym.RCTRL, KeySym.LALT, KeySym.RALT }

(* event.mod is the set of modifier flags held; mod & (A | B) is non-zero  *)
(* exactly when the set meets {A, B}.                                      *)
KMOD_SHIFT == { "KMOD_LSHIFT", "KMOD_RSHIFT" }
KMOD_CTRL == { "KMOD_LCTRL", "KMOD_RCTRL" }
KMOD_ALT == { "KMOD_LALT", "KMOD_RALT" }

Held(mod, flags) == mod \cap flags # {}

Max(p, q) == IF p >= q THEN p ELSE q
Min(p, q) == IF p <= q THEN p ELSE q

-----------------------------------------------------------------------------
(* Values. *)

(* game_map.in_bounds(x, y) *)
in_bounds(x, y) == 0 <= x /\ x < MapWidth /\ 0 <= y /\ y < MapHeight

(* The colours of the messages this file adds. *)
color == [ impossible |-> "impossible", invalid |-> "invalid" ]

Message(text, fg) == [ text |-> text, fg |-> fg ]

(* The text an Impossible raised by perform() carries (exc.args[0]). *)
ImpossibleText == "exc.args[0]"

(* Actions: a type and its arguments after the entity. *)
Action(type, arg) == [ type |-> type, arg |-> arg ]
BumpAction(dx, dy) == Action("BumpAction", <<dx, dy>>)
WaitAction == Action("WaitAction", <<>>)
PickupAction == Action("PickupAction", <<>>)
TakeStairsAction == Action("TakeStairsAction", <<>>)
DropItem(item) == Action("DropItem", <<item>>)
ConsumableAction(item) == Action("ItemAction", <<item>>)
CallbackAction(xy) == Action("ItemAction", <<xy[1], xy[2]>>)
NoAction == Action("None", <<>>)

(* Handlers: the class and the fields the class adds. *)
MainGameEventHandler == [ kind |-> "MainGameEventHandler" ]
GameOverEventHandler == [ kind |-> "GameOverEventHandler" ]
LevelUpEventHandler == [ kind |-> "LevelUpEventHandler" ]
CharacterScreenEventHandler == [ kind |-> "CharacterScreenEventHandler" ]
InventoryActivateHandler == [ kind |-> "InventoryActivateHandler" ]
InventoryDropHandler == [ kind |-> "InventoryDropHandler" ]
LookHandler == [ kind |-> "LookHandler" ]
SingleRangedAttackHandler == [ kind |-> "SingleRangedAttackHandler" ]
AreaRangedAttackHandler == [ kind |-> "AreaRangedAttackHandler" ]
HistoryViewer ==
    [ kind |-> "HistoryViewer",
      log_length |-> Len(message_log),
      cursor |-> Len(message_log) - 1 ]

(* PopupMessage(parent, text) *)
PopupMessage(parent, text) ==
    [ kind |-> "PopupMessage", parent |-> parent, text |-> text ]

(* How many popups are stacked on a handler. *)
RECURSIVE PopupDepth(_)
PopupDepth(h) == IF h.kind = "PopupMessage" THEN 1 + PopupDepth(h.parent) ELSE 0

SelectIndexKinds ==
    { "LookHandler", "SingleRangedAttackHandler", "AreaRangedAttackHandler" }
InventoryKinds == { "InventoryActivateHandler", "InventoryDropHandler" }

(* What dispatch returns: None, an Action, a handler, or an exception. *)
RetNone == [ is |-> "None" ]
RetAction(action) == [ is |-> "Action", val |-> action ]
RetHandler(h) == [ is |-> "Handler", val |-> h ]
RetRaise(exc) == [ is |-> "Raise", val |-> exc ]

(* The outcome of one dispatch: the return value and the engine state and  *)
(* observations it leaves.                                                 *)
Out0 ==
    [ ret |-> RetNone,
      self |-> handler,
      message_log |-> message_log,
      mouse_location |-> mouse_location,
      player |-> player,
      save_file |-> save_file,
      callback_ret |-> RetNone,
      performed |-> NoAction,
      perform_result |-> "none",
      ok |-> FALSE,
      next |-> handler,
      calls |-> <<>>,
      callback_args |-> <<>>,
      selected |-> <<>>,
      index_selected |-> <<>> ]

Returns(out, ret) == [ out EXCEPT !.ret = ret ]

(* engine.message_log.add_message(text, fg) *)
add_message(out, text, fg) ==
    [ out EXCEPT !.message_log = Append(@, Message(text, fg)),
                 !.calls = Append(@, "add_message") ]

-----------------------------------------------------------------------------
(* EventHandler *)

(* EventHandler.ev_mousemotion without the bounds test. *)
EventHandler_ev_mousemotion_unchecked(out, ev) ==
    [ out EXCEPT !.mouse_location = ev.tile ]

(* EventHandler.ev_mousemotion *)
EventHandler_ev_mousemotion(out, ev) ==
    IF in_bounds(ev.tile[1], ev.tile[2])
    THEN [ out EXCEPT !.mouse_location = ev.tile ]
    ELSE out

(* BaseEventHandler.ev_quit *)
BaseEventHandler_ev_quit(out) == Returns(out, RetRaise("SystemExit"))

(* PopupMessage.ev_keydown with a new main gameplay handler in place of    *)
(* the stored parent.                                                      *)
PopupMessage_ev_keydown_forgets(out, ev) ==
    Returns(out, RetHandler(MainGameEventHandler))

(* PopupMessage.ev_keydown *)
PopupMessage_ev_keydown(out, ev) == Returns(out, RetHandler(out.self.parent))

-----------------------------------------------------------------------------
(* MainGameEventHandler *)

(* SelectIndexHandler.__init__ that leaves the cursor where it was. *)
SelectIndexHandler_init_keeps(out) == out

(* SelectIndexHandler.__init__: the cursor is set to the player. *)
SelectIndexHandler_init(out) ==
    [ out EXCEPT !.mouse_location = <<out.player.x, out.player.y>> ]

(* MainGameEventHandler.ev_keydown with the Shift+period test missing: the *)
(* period is only ever a wait key.                                         *)
MainGameEventHandler_ev_keydown_no_stairs(out, ev) ==
    LET key == ev.sym
    IN  IF key \in DOMAIN MOVE_KEYS
        THEN Returns(out, RetAction(BumpAction(MOVE_KEYS[key][1], MOVE_KEYS[key][2])))
        ELSE IF key \in WAIT_KEYS
        THEN Returns(out, RetAction(WaitAction))
        ELSE IF key = KeySym.ESCAPE
        THEN Returns(out, RetRaise("SystemExit"))
        ELSE IF key = KeySym.v
        THEN Returns(out, RetHandler(HistoryViewer))
        ELSE IF key = KeySym.g
        THEN Returns(out, RetAction(PickupAction))
        ELSE IF key = KeySym.i
        THEN Returns(out, RetHandler(InventoryActivateHandler))
        ELSE IF key = KeySym.d
        THEN Returns(out, RetHandler(InventoryDropHandler))
        ELSE IF key = KeySym.c
        THEN Returns(out, RetHandler(CharacterScreenEventHandler))
        ELSE IF key = KeySym.SLASH
        THEN Returns(SelectIndexHandler_init(out), RetHandler(LookHandler))
        ELSE Returns(out, RetNone)

(* MainGameEventHandler.ev_keydown with dx and dy of the movement table    *)
(* exchanged.                                                              *)
MainGameEventHandler_ev_keydown_transposed(out, ev) ==
    LET key == ev.sym
        modifier == ev.mod
    IN  IF key = KeySym.PERIOD /\ Held(modifier, KMOD_SHIFT)
        THEN Returns(out, RetAction(TakeStairsAction))
        ELSE IF key \in DOMAIN MOVE_KEYS
        THEN Returns(out, RetAction(BumpAction(MOVE_KEYS[key][2], MOVE_KEYS[key][1])))
        ELSE IF key \in WAIT_KEYS
        THEN Returns(out, RetAction(WaitAction))
        ELSE IF key = KeySym.ESCAPE
        THEN Returns(out, RetRaise("SystemExit"))
        ELSE IF key = KeySym.v
        THEN Returns(out, RetHandler(HistoryViewer))
        ELSE IF key = KeySym.g
        THEN Returns(out, RetAction(PickupAction))
        ELSE IF key = KeySym.i
        THEN Returns(out, RetHandler(InventoryActivateHandler))
        ELSE IF key = KeySym.d
        THEN Returns(out, RetHandler(InventoryDropHandler))
        ELSE IF key = KeySym.c
        THEN Returns(out, RetHandler(CharacterScreenEventHandler))
        ELSE IF key = KeySym.SLASH
        THEN Returns(SelectIndexHandler_init(out), RetHandler(LookHandler))
        ELSE Returns(out, RetNone)

(* MainGameEventHandler.ev_keydown with the keys of the two inventory      *)
(* menus exchanged.                                                        *)
MainGameEventHandler_ev_keydown_menus_swapped(out, ev) ==
    LET key == ev.sym
        modifier == ev.mod
    IN  IF key = KeySym.PERIOD /\ Held(modifier, KMOD_SHIFT)
        THEN Returns(out, RetAction(TakeStairsAction))
        ELSE IF key \in DOMAIN MOVE_KEYS
        THEN Returns(out, RetAction(BumpAction(MOVE_KEYS[key][1], MOVE_KEYS[key][2])))
        ELSE IF key \in WAIT_KEYS
        THEN Returns(out, RetAction(WaitAction))
        ELSE IF key = KeySym.ESCAPE
        THEN Returns(out, RetRaise("SystemExit"))
        ELSE IF key = KeySym.v
        THEN Returns(out, RetHandler(HistoryViewer))
        ELSE IF key = KeySym.g
        THEN Returns(out, RetAction(PickupAction))
        ELSE IF key = KeySym.d
        THEN Returns(out, RetHandler(InventoryActivateHandler))
        ELSE IF key = KeySym.i
        THEN Returns(out, RetHandler(InventoryDropHandler))
        ELSE IF key = KeySym.c
        THEN Returns(out, RetHandler(CharacterScreenEventHandler))
        ELSE IF key = KeySym.SLASH
        THEN Returns(SelectIndexHandler_init(out), RetHandler(LookHandler))
        ELSE Returns(out, RetNone)

(* MainGameEventHandler.ev_keydown *)
MainGameEventHandler_ev_keydown(out, ev) ==
    LET key == ev.sym
        modifier == ev.mod
    IN  IF key = KeySym.PERIOD /\ Held(modifier, KMOD_SHIFT)
        THEN Returns(out, RetAction(TakeStairsAction))
        ELSE IF key \in DOMAIN MOVE_KEYS
        THEN Returns(out, RetAction(BumpAction(MOVE_KEYS[key][1], MOVE_KEYS[key][2])))
        ELSE IF key \in WAIT_KEYS
        THEN Returns(out, RetAction(WaitAction))
        ELSE IF key = KeySym.ESCAPE
        THEN Returns(out, RetRaise("SystemExit"))
        ELSE IF key = KeySym.v
        THEN Returns(out, RetHandler(HistoryViewer))
        ELSE IF key = KeySym.g
        THEN Returns(out, RetAction(PickupAction))
        ELSE IF key = KeySym.i
        THEN Returns(out, RetHandler(InventoryActivateHandler))
        ELSE IF key = KeySym.d
        THEN Returns(out, RetHandler(InventoryDropHandler))
        ELSE IF key = KeySym.c
        THEN Returns(out, RetHandler(CharacterScreenEventHandler))
        ELSE IF key = KeySym.SLASH
        THEN Returns(SelectIndexHandler_init(out), RetHandler(LookHandler))
        ELSE Returns(out, RetNone)

-----------------------------------------------------------------------------
(* AskUserEventHandler *)

(* AskUserEventHandler.on_exit *)
on_exit(out) == Returns(out, RetHandler(MainGameEventHandler))

(* AskUserEventHandler.ev_keydown without the modifier-key test: every key *)
(* exits.                                                                  *)
AskUserEventHandler_ev_keydown_any(out, ev) == on_exit(out)

(* AskUserEventHandler.ev_keydown *)
AskUserEventHandler_ev_keydown(out, ev) ==
    IF ev.sym \in MODIFIER_KEYS
    THEN Returns(out, RetNone)
    ELSE on_exit(out)

(* AskUserEventHandler.ev_mousebuttondown *)
AskUserEventHandler_ev_mousebuttondown(out, ev) == on_exit(out)

-----------------------------------------------------------------------------
(* LevelUpEventHandler *)

(* player.level.increase_max_hp / increase_power / increase_defense: the   *)
(* call is recorded; whether a further level-up is still pending           *)
(* afterwards is the level's business (ext.still).                         *)
increase_stat(out, name, ext) ==
    [ out EXCEPT !.calls = Append(@, name),
                 !.player.requires_level_up = ext.still ]

(* LevelUpEventHandler.ev_keydown with the range test one too wide: d is   *)
(* taken as a choice as well.                                              *)
LevelUpEventHandler_ev_keydown_wide(out, ev, ext) ==
    LET key == ev.sym
        index == key - KeySym.a
    IN  IF 0 <= index /\ index <= 3
        THEN AskUserEventHandler_ev_keydown(
                 IF index = 0 THEN increase_stat(out, "increase_max_hp", ext)
                 ELSE IF index = 1 THEN increase_stat(out, "increase_power", ext)
                 ELSE increase_stat(out, "increase_defense", ext),
                 ev)
        ELSE Returns(add_message(out, "Invalid entry.", color.invalid), RetNone)

(* LevelUpEventHandler.ev_keydown *)
LevelUpEventHandler_ev_keydown(out, ev, ext) ==
    LET key == ev.sym
        index == key - KeySym.a
    IN  IF 0 <= index /\ index <= 2
        THEN AskUserEventHandler_ev_keydown(
                 IF index = 0 THEN increase_stat(out, "increase_max_hp", ext)
                 ELSE IF index = 1 THEN increase_stat(out, "increase_power", ext)
                 ELSE increase_stat(out, "increase_defense", ext),
                 ev)
        ELSE Returns(add_message(out, "Invalid entry.", color.invalid), RetNone)

(* LevelUpEventHandler.ev_mousebuttondown left as AskUserEventHandler has  *)
(* it: a click exits.                                                      *)
LevelUpEventHandler_ev_mousebuttondown_exits(out, ev) == on_exit(out)

(* LevelUpEventHandler.ev_mousebuttondown *)
LevelUpEventHandler_ev_mousebuttondown(out, ev) == Returns(out, RetNone)

-----------------------------------------------------------------------------
(* InventoryEventHandler and its two subclasses *)

(* The results item.consumable.get_action(player) can have: an action, a   *)
(* targeting handler it constructs, None, or the AttributeError of an item *)
(* whose consumable is None.                                               *)
GetActionResults ==
    { "Action", "SingleRangedAttackHandler", "AreaRangedAttackHandler",
      "None", "AttributeError" }

(* InventoryActivateHandler.on_item_selected *)
InventoryActivateHandler_on_item_selected(out, item, ext) ==
    CASE ext.get_action = "Action" ->
            Returns(out, RetAction(ConsumableAction(item)))
      [] ext.get_action = "SingleRangedAttackHandler" ->
            Returns(SelectIndexHandler_init(out), RetHandler(SingleRangedAttackHandler))
      [] ext.get_action = "AreaRangedAttackHandler" ->
            Returns(SelectIndexHandler_init(out), RetHandler(AreaRangedAttackHandler))
      [] ext.get_action = "None" ->
            Returns(out, RetNone)
      [] OTHER ->
            Returns(out, RetRaise("AttributeError"))

(* InventoryDropHandler.on_item_selected *)
InventoryDropHandler_on_item_selected(out, item) ==
    Returns(out, RetAction(DropItem(item)))

(* self.on_item_selected(selected_item), by the class of self *)
on_item_selected(out, item, ext) ==
    LET seen == [ out EXCEPT !.selected = Append(@, item),
                             !.calls = Append(@, "on_item_selected") ]
    IN  IF out.self.kind = "InventoryActivateHandler"
        THEN InventoryActivateHandler_on_item_selected(seen, item, ext)
        ELSE InventoryDropHandler_on_item_selected(seen, item)

(* InventoryEventHandler.ev_keydown with the IndexError not caught apart:   *)
(* a letter beyond the items is handled as any other key.                   *)
InventoryEventHandler_ev_keydown_exits(out, ev, ext) ==
    LET key == ev.sym
        index == key - KeySym.a
        items == out.player.items
    IN  IF 0 <= index /\ index < Len(items)
        THEN on_item_selected(out, items[index + 1], ext)
        ELSE AskUserEventHandler_ev_keydown(out, ev)

(* InventoryEventHandler.ev_keydown; items[index] of the 0-based Python     *)
(* list is items[index + 1] of the sequence, IndexError when index is not   *)
(* below its length.                                                        *)
InventoryEventHandler_ev_keydown(out, ev, ext) ==
    LET key == ev.sym
        index == key - KeySym.a
        items == out.player.items
    IN  IF 0 <= index /\ index <= 26
        THEN IF index < Len(items)
             THEN on_item_selected(out, items[index + 1], ext)
             ELSE Returns(add_message(out, "Invalid entry.", color.invalid), RetNone)
        ELSE AskUserEventHandler_ev_keydown(out, ev)

-----------------------------------------------------------------------------
(* SelectIndexHandler and its three subclasses *)

(* LookHandler.on_index_selected *)
LookHandler_on_index_selected(out, x, y) ==
    Returns(out, RetHandler(MainGameEventHandler))

(* self.callback((x, y)): the callback returns an action or None. *)
callback(out, xy, ext) ==
    LET returned == IF ext.callback = "Action"
                    THEN RetAction(CallbackAction(xy))
                    ELSE RetNone
    IN  Returns([ out EXCEPT !.callback_args = Append(@, xy),
                             !.callback_ret = returned,
                             !.calls = Append(@, "callback") ],
                returned)

(* SingleRangedAttackHandler.on_index_selected *)
SingleRangedAttackHandler_on_index_selected(out, x, y, ext) ==
    callback(out, <<x, y>>, ext)

(* AreaRangedAttackHandler.on_index_selected with the callback's result    *)
(* dropped.                                                                *)
AreaRangedAttackHandler_on_index_selected_drops(out, x, y, ext) ==
    Returns(callback(out, <<x, y>>, ext), RetNone)

(* AreaRangedAttackHandler.on_index_selected *)
AreaRangedAttackHandler_on_index_selected(out, x, y, ext) ==
    callback(out, <<x, y>>, ext)

(* self.on_index_selected(x, y), by the class of self *)
on_index_selected(out, x, y, ext) ==
    LET seen == [ out EXCEPT !.index_selected = Append(@, <<x, y>>) ]
    IN  CASE out.self.kind = "LookHandler" ->
                LookHandler_on_index_selected(seen, x, y)
          [] out.self.kind = "SingleRangedAttackHandler" ->
                SingleRangedAttackHandler_on_index_selected(seen, x, y, ext)
          [] OTHER ->
                AreaRangedAttackHandler_on_index_selected(seen, x, y, ext)

(* The step multiplier of SelectIndexHandler.ev_keydown. *)
StepModifier(mod) ==
    (IF Held(mod, KMOD_SHIFT) THEN 5 ELSE 1)
    * (IF Held(mod, KMOD_CTRL) THEN 10 ELSE 1)
    * (IF Held(mod, KMOD_ALT) THEN 20 ELSE 1)

(* SelectIndexHandler.ev_keydown.  The moved position x + dx * modifier is  *)
(* computed and then overwritten: x = max(0, width - 1), likewise y.        *)
SelectIndexHandler_ev_keydown(out, ev, ext) ==
    LET key == ev.sym
    IN  IF key \in DOMAIN MOVE_KEYS
        THEN LET modifier == StepModifier(ev.mod)
                 x0 == out.mouse_location[1]
                 y0 == out.mouse_location[2]
                 dx == MOVE_KEYS[key][1]
                 dy == MOVE_KEYS[key][2]
                 x1 == x0 + dx * modifier
                 y1 == y0 + dy * modifier
                 x == Max(0, MapWidth - 1)
                 y == Max(0, MapHeight - 1)
             IN  Returns([ out EXCEPT !.mouse_location = <<x, y>> ], RetNone)
        ELSE IF key \in CONFIRM_KEYS
        THEN on_index_selected(out, out.mouse_location[1], out.mouse_location[2], ext)
        ELSE AskUserEventHandler_ev_keydown(out, ev)

(* SelectIndexHandler.ev_mousebuttondown without the button test: any      *)
(* button on a tile of the map selects.                                    *)
SelectIndexHandler_ev_mousebuttondown_any_button(out, ev, ext) ==
    IF in_bounds(ev.tile[1], ev.tile[2])
    THEN on_index_selected(out, ev.tile[1], ev.tile[2], ext)
    ELSE AskUserEventHandler_ev_mousebuttondown(out, ev)

(* SelectIndexHandler.ev_mousebuttondown *)
SelectIndexHandler_ev_mousebuttondown(out, ev, ext) ==
    IF in_bounds(ev.tile[1], ev.tile[2]) /\ ev.button = 1
    THEN on_index_selected(out, ev.tile[1], ev.tile[2], ext)
    ELSE AskUserEventHandler_ev_mousebuttondown(out, ev)

-----------------------------------------------------------------------------
(* GameOverEventHandler *)

(* on_quit with the save file left in place. *)
on_quit_keeps_save(out, ext) ==
    Returns([ out EXCEPT !.save_file = IF ext.exists THEN "present" ELSE "absent",
                         !.calls = Append(@, "os.path.exists") ],
            RetRaise("QuitWithoutSaving"))

(* GameOverEventHandler.on_quit.  os.path.exists answers for a file the   *)
(* program does not own (ext.exists); os.remove leaves it absent.          *)
on_quit(out, ext) ==
    Returns(IF ext.exists
            THEN [ out EXCEPT !.save_file = "absent",
                              !.calls = @ \o <<"os.path.exists", "os.remove">> ]
            ELSE [ out EXCEPT !.save_file = "absent",
                              !.calls = Append(@, "os.path.exists") ],
            RetRaise("QuitWithoutSaving"))

(* GameOverEventHandler.ev_quit *)
GameOverEventHandler_ev_quit(out, ext) == on_quit(out, ext)

(* GameOverEventHandler.ev_keydown where any key but Escape starts over in *)
(* main gameplay mode.                                                     *)
GameOverEventHandler_ev_keydown_restarts(out, ev, ext) ==
    IF ev.sym = KeySym.ESCAPE
    THEN on_quit(out, ext)
    ELSE Returns(out, RetHandler(MainGameEventHandler))

(* GameOverEventHandler.ev_keydown *)
GameOverEventHandler_ev_keydown(out, ev, ext) ==
    IF ev.sym = KeySym.ESCAPE THEN on_quit(out, ext) ELSE Returns(out, RetNone)

-----------------------------------------------------------------------------
(* HistoryViewer *)

(* HistoryViewer.ev_keydown with the cursor clamped at both ends instead   *)
(* of wrapping.                                                            *)
HistoryViewer_ev_keydown_clamps(out, ev) ==
    LET cursor == out.self.cursor
        log_length == out.self.log_length
        set(c) == Returns([ out EXCEPT !.self.cursor = c ], RetNone)
    IN  IF ev.sym \in DOMAIN CURSOR_Y_KEYS
        THEN set(Max(0, Min(cursor + CURSOR_Y_KEYS[ev.sym], log_length - 1)))
        ELSE IF ev.sym = KeySym.HOME
        THEN set(0)
        ELSE IF ev.sym = KeySym.END
        THEN set(log_length - 1)
        ELSE Returns(out, RetHandler(MainGameEventHandler))

(* HistoryViewer.ev_keydown *)
HistoryViewer_ev_keydown(out, ev) ==
    LET cursor == out.self.cursor
        log_length == out.self.log_length
        set(c) == Returns([ out EXCEPT !.self.cursor = c ], RetNone)
    IN  IF ev.sym \in DOMAIN CURSOR_Y_KEYS
        THEN LET adjust == CURSOR_Y_KEYS[ev.sym]
             IN  IF adjust < 0 /\ cursor = 0
                 THEN set(log_length - 1)
                 ELSE IF adjust > 0 /\ cursor = log_length - 1
                 THEN set(0)
                 ELSE set(Max(0, Min(cursor + adjust, log_length - 1)))
        ELSE IF ev.sym = KeySym.HOME
        THEN set(0)
        ELSE IF ev.sym = KeySym.END
        THEN set(log_length - 1)
        ELSE Returns(out, RetHandler(MainGameEventHandler))

-----------------------------------------------------------------------------
(* Dispatch and the handle_events wrapper *)

(* self.dispatch(event): tcod's EventDispatch calls the ev_ method of the  *)
(* event's type on the class of self; a class without one returns None.    *)
dispatch(out, ev, ext) ==
    LET kind == out.self.kind
    IN  CASE kind = "PopupMessage" ->
              (CASE ev.type = "KeyDown" -> PopupMessage_ev_keydown(out, ev)
                 [] ev.type = "Quit" -> BaseEventHandler_ev_quit(out)
                 [] OTHER -> Returns(out, RetNone))
          [] ev.type = "KeyDown" ->
              (CASE kind = "MainGameEventHandler" ->
                       MainGameEventHandler_ev_keydown(out, ev)
                 [] kind = "CharacterScreenEventHandler" ->
                       AskUserEventHandler_ev_keydown(out, ev)
                 [] kind = "LevelUpEventHandler" ->
                       LevelUpEventHandler_ev_keydown(out, ev, ext)
                 [] kind \in InventoryKinds ->
                       InventoryEventHandler_ev_keydown(out, ev, ext)
                 [] kind \in SelectIndexKinds ->
                       SelectIndexHandler_ev_keydown(out, ev, ext)
                 [] kind = "GameOverEventHandler" ->
                       GameOverEventHandler_ev_keydown(out, ev, ext)
                 [] kind = "HistoryViewer" ->
                       HistoryViewer_ev_keydown(out, ev))
          [] ev.type = "MouseButtonDown" ->
              (CASE kind = "LevelUpEventHandler" ->
                       LevelUpEventHandler_ev_mousebuttondown(out, ev)
                 [] kind \in SelectIndexKinds ->
                       SelectIndexHandler_ev_mousebuttondown(out, ev, ext)
                 [] kind \in InventoryKinds \cup {"CharacterScreenEventHandler"} ->
                       AskUserEventHandler_ev_mousebuttondown(out, ev)
                 [] OTHER -> Returns(out, RetNone))
          [] ev.type = "MouseMotion" ->
              Returns(EventHandler_ev_mousemotion(out, ev), RetNone)
          [] ev.type = "Quit" ->
              IF kind = "GameOverEventHandler"
              THEN GameOverEventHandler_ev_quit(out, ext)
              ELSE BaseEventHandler_ev_quit(out)

(* The inventory is the sequence of its slots: an item is named by the    *)
(* slot it is in, so items = <<1, ..., n>>.  A pickup fills slot n + 1; an *)
(* item that leaves the inventory leaves n - 1 slots, the later items      *)
(* moving up one.                                                          *)
Slots(n) == [ slot \in 1..n |-> slot ]

NewItem(items) == Len(items) + 1

Without(items, item) ==
    IF item \in 1..Len(items) THEN Slots(Len(items) - 1) ELSE items

(* action.perform() when it succeeds, then engine.handle_enemy_turn(): a   *)
(* bump moves the player or attacks in place, a pickup adds an item, a     *)
(* drop or a consumed item leaves the inventory, experience may make a     *)
(* level-up pending, and the enemies may kill the player.                  *)
perform(p, action, ext) ==
    LET moved == [ p EXCEPT !.x = @ + action.arg[1], !.y = @ + action.arg[2] ]
        acted ==
            CASE action.type = "BumpAction" /\ ext.moved -> moved
              [] action.type = "PickupAction" ->
                    [ p EXCEPT !.items = Append(@, NewItem(@)) ]
              [] action.type = "DropItem" ->
                    [ p EXCEPT !.items = Without(@, action.arg[1]) ]
              [] action.type = "ItemAction" /\ Len(action.arg) = 1 ->
                    [ p EXCEPT !.items = Without(@, action.arg[1]) ]
              [] OTHER -> p
    IN  [ acted EXCEPT !.requires_level_up = @ \/ ext.xp,
                       !.is_alive = ~ext.dies ]

(* handle_action with the enemy turn and the refresh run after a failed    *)
(* action as well.                                                         *)
handle_action_turn_on_failure(out, action, ext) ==
    IF action = NoAction
    THEN [ out EXCEPT !.ok = FALSE ]
    ELSE IF ext.perform = "Impossible"
    THEN [ add_message([ out EXCEPT !.performed = action,
                                    !.perform_result = "Impossible",
                                    !.calls = Append(@, "perform") ],
                       ImpossibleText, color.impossible)
           EXCEPT !.calls = @ \o <<"handle_enemy_turn", "update_fov">>,
                  !.ok = TRUE ]
    ELSE [ out EXCEPT !.performed = action,
                      !.perform_result = "ok",
                      !.player = perform(out.player, action, ext),
                      !.calls = @ \o <<"perform", "handle_enemy_turn", "update_fov">>,
                      !.ok = TRUE ]

(* handle_action with the field-of-view refresh left out. *)
handle_action_no_refresh(out, action, ext) ==
    IF action = NoAction
    THEN [ out EXCEPT !.ok = FALSE ]
    ELSE IF ext.perform = "Impossible"
    THEN [ add_message([ out EXCEPT !.performed = action,
                                    !.perform_result = "Impossible",
                                    !.calls = Append(@, "perform") ],
                       ImpossibleText, color.impossible)
           EXCEPT !.ok = FALSE ]
    ELSE [ out EXCEPT !.performed = action,
                      !.perform_result = "ok",
                      !.player = perform(out.player, action, ext),
                      !.calls = @ \o <<"perform", "handle_enemy_turn">>,
                      !.ok = TRUE ]

(* EventHandler.handle_action *)
handle_action(out, action, ext) ==
    IF action = NoAction
    THEN [ out EXCEPT !.ok = FALSE ]
    ELSE IF ext.perform = "Impossible"
    THEN [ add_message([ out EXCEPT !.performed = action,
                                    !.perform_result = "Impossible",
                                    !.calls = Append(@, "perform") ],
                       ImpossibleText, color.impossible)
           EXCEPT !.ok = FALSE ]
    ELSE [ out EXCEPT !.performed = action,
                      !.perform_result = "ok",
                      !.player = perform(out.player, action, ext),
                      !.calls = @ \o <<"perform", "handle_enemy_turn", "update_fov">>,
                      !.ok = TRUE ]

(* NextHandler with the level-up check ahead of the death check. *)
NextHandler_level_up_first(p) ==
    IF p.requires_level_up
    THEN LevelUpEventHandler
    ELSE IF ~p.is_alive
    THEN GameOverEventHandler
    ELSE MainGameEventHandler

(* The handler handle_events returns after handle_action returned True. *)
NextHandler(p) ==
    IF ~p.is_alive
    THEN GameOverEventHandler
    ELSE IF p.requires_level_up
    THEN LevelUpEventHandler
    ELSE MainGameEventHandler

(* EventHandler.handle_events, after the dispatch: out.next is the handler *)
(* it returns.                                                             *)
EventHandler_handle_events(out, ext) ==
    IF out.ret.is = "Handler"
    THEN [ out EXCEPT !.next = out.ret.val ]
    ELSE LET done == handle_action(
                         out,
                         IF out.ret.is = "Action" THEN out.ret.val ELSE NoAction,
                         ext)
         IN  IF done.ok
             THEN [ done EXCEPT !.next = NextHandler(done.player) ]
             ELSE [ done EXCEPT !.next = done.self ]

(* BaseEventHandler.handle_events, after the dispatch.  An action result   *)
(* fails the assert.                                                       *)
BaseEventHandler_handle_events(out) ==
    IF out.ret.is = "Handler"
    THEN [ out EXCEPT !.next = out.ret.val ]
    ELSE IF out.ret.is = "Action"
    THEN Returns(out, RetRaise("AssertionError"))
    ELSE [ out EXCEPT !.next = out.self ]

(* self.handle_events(event) after the dispatch, by the class of self *)
handle_events(out, ext) ==
    IF out.self.kind = "PopupMessage"
    THEN BaseEventHandler_handle_events(out)
    ELSE EventHandler_handle_events(out, ext)

-----------------------------------------------------------------------------
(* The events the host loop feeds and the collaborators' choices *)

(* The keys of the events the host loop feeds: movement keys of each      *)
(* group (arrows and paging, keypad, letters), the wait and confirm keys,  *)
(* pure modifier keys, every key a handler names, and keys bound to        *)
(* nothing.                                                                *)
EventKeys ==
    WAIT_KEYS \cup CONFIRM_KEYS
    \cup { KeySym.UP, KeySym.DOWN, KeySym.LEFT, KeySym.RIGHT, KeySym.HOME,
           KeySym.END, KeySym.PAGEUP, KeySym.PAGEDOWN, KeySym.KP_1, KeySym.b,
           KeySym.LSHIFT, KeySym.RALT,
           KeySym.ESCAPE, KeySym.TAB, KeySym.SLASH, KeySym.a, KeySym.c,
           KeySym.d, KeySym.g, KeySym.i, KeySym.v, KeySym.z, KeySym.LEFTBRACE }

(* Every key the file names. *)
AllKeys == { KeySym[name] : name \in DOMAIN KeySym }

(* event.mod: every combination of Shift, Ctrl and Alt on the left, and    *)
(* each of the three on the right.                                         *)
Mods ==
    (SUBSET { "KMOD_LSHIFT", "KMOD_LCTRL", "KMOD_LALT" })
    \cup { {"KMOD_RSHIFT"}, {"KMOD_RCTRL"}, {"KMOD_RALT"} }

(* The key presses the host loop feeds: every key with no modifier held,   *)
(* and the wait keys and one movement key under Shift, under right Shift   *)
(* and under Ctrl+Alt.                                                     *)
KeyDownEvents ==
    { [ type |-> "KeyDown", sym |-> key, mod |-> {} ] : key \in EventKeys }
    \cup { [ type |-> "KeyDown", sym |-> km[1], mod |-> km[2] ] :
             km \in (WAIT_KEYS \cup { KeySym.UP })
                    \X { {"KMOD_LSHIFT"}, {"KMOD_RSHIFT"},
                         {"KMOD_LCTRL", "KMOD_LALT"} } }

(* Every key press: each key under each modifier state. *)
AllKeyDownEvents ==
    { [ type |-> "KeyDown", sym |-> km[1], mod |-> km[2] ] :
        km \in AllKeys \X Mods }

(* Mouse tiles: every tile of the map, and one beyond each edge. *)
Tiles ==
    ((0..(MapWidth - 1)) \X (0..(MapHeight - 1)))
    \cup { <<MapWidth, 0>>, <<0, MapHeight>> }

MouseButtonDownEvents ==
    { [ type |-> "MouseButtonDown", tile |-> tb[1], button |-> tb[2] ] :
        tb \in Tiles \X {1, 3} }

MouseMotionEvents == { [ type |-> "MouseMotion", tile |-> tile ] : tile \in Tiles }

QuitEvent == [ type |-> "Quit" ]

(* The collaborators' choices a dispatch on this handler can consult. *)
DispatchExt(self, ev) ==
    [ get_action :
          IF self.kind = "InventoryActivateHandler" /\ ev.type = "KeyDown"
          THEN GetActionResults ELSE {"None"},
      callback :
          IF self.kind \in {"SingleRangedAttackHandler", "AreaRangedAttackHandler"}
             /\ ev.type \in {"KeyDown", "MouseButtonDown"}
          THEN {"Action", "None"} ELSE {"None"},
      still :
          IF self.kind = "LevelUpEventHandler" /\ ev.type = "KeyDown"
          THEN BOOLEAN ELSE {player.requires_level_up},
      exists :
          IF self.kind = "GameOverEventHandler" /\ ev.type \in {"KeyDown", "Quit"}
          THEN BOOLEAN ELSE {FALSE} ]

(* The outcomes perform() and the enemy turn can have for the dispatched   *)
(* action: a bump moves the player only onto a tile of the map, a pickup   *)
(* succeeds only while the inventory has room.                             *)
PerformExt(out) ==
    IF out.ret.is # "Action"
    THEN { [ perform |-> "Impossible", moved |-> FALSE, dies |-> FALSE, xp |-> FALSE ] }
    ELSE LET action == out.ret.val
             canMove == /\ action.type = "BumpAction"
                        /\ in_bounds(out.player.x + action.arg[1],
                                     out.player.y + action.arg[2])
             canSucceed == action.type = "PickupAction"
                               => Len(out.player.items) < MaxItems
         IN  { xp \in [ perform : {"ok", "Impossible"}, moved : BOOLEAN,
                        dies : BOOLEAN, xp : BOOLEAN ] :
                 /\ xp.perform = "ok" => canSucceed
                 /\ xp.moved => (canMove /\ xp.perform = "ok")
                 /\ xp.perform = "Impossible" => (~xp.dies /\ ~xp.xp) }

-----------------------------------------------------------------------------
(* The state machine *)

Init ==
    /\ handler = MainGameEventHandler
    /\ player = [ x |-> 0, y |-> 0, is_alive |-> TRUE,
                  requires_level_up |-> FALSE, items |-> <<>> ]
    /\ message_log = <<>>
    /\ mouse_location = <<0, 0>>
    /\ save_file = "unchecked"
    /\ signal = "none"

(* Every way self.handle_events(event) can end from the current state, one *)
(* outcome for each choice of the collaborators: the handler returned      *)
(* (next) or the exception raised (ret), the engine state left behind, and *)
(* what was called on the way.                                             *)
Outcomes(ev) ==
    UNION { { IF d.ret.is = "Raise" THEN d ELSE handle_events(d, xp) :
                xp \in PerformExt(d) } :
            d \in { dispatch(Out0, ev, xd) : xd \in DispatchExt(handler, ev) } }

(* handler = handler.handle_events(event) in the host loop.  An exception  *)
(* that leaves handle_events ends the run.                                 *)
HandleEvents(ev) ==
    /\ signal = "none"
    /\ \E o \in Outcomes(ev) :
          /\ Len(o.message_log) <= MaxLog
          /\ handler' = o.next
          /\ signal' = IF o.ret.is = "Raise" THEN o.ret.val ELSE "none"
          /\ player' = o.player
          /\ message_log' = o.message_log
          /\ mouse_location' = o.mouse_location
          /\ save_file' = o.save_file

(* The host puts a popup over the active handler:                         *)
(* handler = PopupMessage(handler, text).                                  *)
ShowPopup ==
    /\ signal = "none"
    /\ PopupDepth(handler) < MaxPopups
    /\ handler' = PopupMessage(handler, "text")
    /\ UNCHANGED <<player, message_log, mouse_location, save_file, signal>>

KeyDown == \E ev \in KeyDownEvents : HandleEvents(ev)

MouseButtonDown == \E ev \in MouseButtonDownEvents : HandleEvents(ev)

MouseMotion == \E ev \in MouseMotionEvents : HandleEvents(ev)

Quit == HandleEvents(QuitEvent)

Next == KeyDown \/ MouseButtonDown \/ MouseMotion \/ Quit

Spec == Init /\ [][Next]_vars

(* The same loop with a host that can put popups over the active handler. *)
PopupNext == Next \/ ShowPopup

PopupSpec == Init /\ [][PopupNext]_vars

-----------------------------------------------------------------------------
(* Properties.  Each is stated over every way handle_events can end from a *)
(* reachable state (Outcomes), for the events named.                       *)

Events ==
    KeyDownEvents \cup MouseButtonDownEvents \cup MouseMotionEvents \cup {QuitEvent}

(* Every way a handle_events call can end from the current state. *)
StepOutcomes == UNION { Outcomes(ev) : ev \in Events }

KeyDownOf(sym, mod) == [ type |-> "KeyDown", sym |-> sym, mod |-> mod ]

(* How many times f was called. *)
Count(seq, f) == Cardinality({ at \in DOMAIN seq : seq[at] = f })

InvalidEntry == Message("Invalid entry.", color.invalid)

(* No action was performed and no turn advanced. *)
NoTurn(o) ==
    /\ o.perform_result = "none"
    /\ Count(o.calls, "perform") = 0
    /\ Count(o.calls, "handle_enemy_turn") = 0
    /\ o.player = player

(* C1: whenever a dispatched action's perform() succeeds, handle_events    *)
(* returns the game-over handler if the player is not alive after the      *)
(* enemy turn, else the level-up handler if a level-up is pending, else    *)
(* the main gameplay handler; a dead player with a pending level-up gets   *)
(* the game-over handler.                                                  *)
C1_NextHandlerAfterSuccess ==
    \A o \in StepOutcomes :
        o.perform_result = "ok" =>
            /\ ~o.player.is_alive => o.next = GameOverEventHandler
            /\ (o.player.is_alive /\ o.player.requires_level_up)
                   => o.next = LevelUpEventHandler
            /\ (o.player.is_alive /\ ~o.player.requires_level_up)
                   => o.next = MainGameEventHandler

(* C1 witness: the player died in the enemy turn with a level-up pending   *)
(* and the game-over handler is active.                                    *)
C1_Witness ==
    /\ handler = GameOverEventHandler
    /\ ~player.is_alive
    /\ player.requires_level_up

(* C2: when perform() fails with Impossible, exactly one message, the      *)
(* failure text in the impossible colour, is appended to the log, neither  *)
(* the enemy turn nor the field-of-view refresh is called, the world is    *)
(* left as it was and the handler that was active is returned.             *)
C2_ImpossibleLogsAndStays ==
    \A o \in StepOutcomes :
        o.perform_result = "Impossible" =>
            /\ o.message_log =
                   Append(message_log, Message(ImpossibleText, color.impossible))
            /\ Count(o.calls, "add_message") = 1
            /\ Count(o.calls, "handle_enemy_turn") = 0
            /\ Count(o.calls, "update_fov") = 0
            /\ o.player = player
            /\ o.next = handler

(* C2 witness: a drop chosen in the inventory-drop menu can fail, and the  *)
(* menu is what handle_events returns.                                     *)
C2_Witness ==
    /\ handler = InventoryDropHandler
    /\ \E o \in StepOutcomes :
          /\ o.perform_result = "Impossible"
          /\ o.performed.type = "DropItem"
          /\ o.next = InventoryDropHandler

(* C3: in every handle_events call the enemy turn runs exactly once if a   *)
(* perform() succeeded and not at all otherwise (no action, a handler      *)
(* transition, a failed action); it runs right after the perform() and is  *)
(* followed by exactly one field-of-view refresh, the last call made.      *)
C3_EnemyTurnOncePerSuccess ==
    \A o \in StepOutcomes :
        LET n == Len(o.calls)
        IN  /\ Count(o.calls, "perform") = (IF o.perform_result = "none" THEN 0 ELSE 1)
            /\ Count(o.calls, "handle_enemy_turn") = (IF o.perform_result = "ok" THEN 1 ELSE 0)
            /\ Count(o.calls, "update_fov") = (IF o.perform_result = "ok" THEN 1 ELSE 0)
            /\ o.perform_result = "ok" =>
                  /\ n >= 3
                  /\ SubSeq(o.calls, n - 2, n) =
                         <<"perform", "handle_enemy_turn", "update_fov">>

(* C3 witness: an action the targeting callback returned succeeds, and the *)
(* calls are callback, perform, enemy turn, refresh.                       *)
C3_Witness ==
    /\ handler = SingleRangedAttackHandler
    /\ \E o \in StepOutcomes :
          o.calls = <<"callback", "perform", "handle_enemy_turn", "update_fov">>

(* C4 as claimed: in main gameplay mode every wait key under every         *)
(* modifier state produces exactly the skip-turn action.                   *)
C4_WaitKeysAlwaysWait ==
    handler = MainGameEventHandler =>
        \A key \in WAIT_KEYS : \A mod \in Mods :
            \A o \in Outcomes(KeyDownOf(key, mod)) : o.ret = RetAction(WaitAction)

(* C4: in main gameplay mode a wait key never produces a bump action; it   *)
(* produces exactly the skip-turn action, except the period with a Shift   *)
(* key held, which produces the take-stairs action.                        *)
C4_WaitKeysWaitUnlessShiftPeriod ==
    handler = MainGameEventHandler =>
        \A key \in WAIT_KEYS : \A mod \in Mods :
            \A o \in Outcomes(KeyDownOf(key, mod)) :
                /\ o.ret.is = "Action"
                /\ o.ret.val.type # "BumpAction"
                /\ o.ret.val = IF key = KeySym.PERIOD /\ Held(mod, KMOD_SHIFT)
                               THEN TakeStairsAction
                               ELSE WaitAction
                /\ o.performed = o.ret.val

(* C4 witness: in main gameplay mode, away from the start, the period      *)
(* under right Shift gives the stairs action and under Ctrl+Alt the wait.  *)
C4_Witness ==
    /\ handler = MainGameEventHandler
    /\ player.x = 1
    /\ \E o \in Outcomes(KeyDownOf(KeySym.PERIOD, {"KMOD_RSHIFT"})) :
          o.performed = TakeStairsAction
    /\ \E o \in Outcomes(KeyDownOf(KeySym.PERIOD, {"KMOD_LCTRL", "KMOD_LALT"})) :
          o.performed = WaitAction /\ o.perform_result = "ok"

(* C5 as claimed: in a tile-selection handler a movement key moves the     *)
(* cursor from (x, y) to (x + dx * m, y + dy * m), m the product of 5 for  *)
(* Shift, 10 for Ctrl and 20 for Alt, and the handler stays active.        *)
C5_CursorMovesByStep ==
    handler.kind \in SelectIndexKinds =>
        \A key \in DOMAIN MOVE_KEYS : \A mod \in Mods :
            \A o \in Outcomes(KeyDownOf(key, mod)) :
                /\ o.mouse_location =
                       << mouse_location[1] + MOVE_KEYS[key][1] * StepModifier(mod),
                          mouse_location[2] + MOVE_KEYS[key][2] * StepModifier(mod) >>
                /\ o.next = handler

(* C6: in the level-up handler a, b and c make exactly one call, of        *)
(* increase_max_hp, increase_power and increase_defense in turn, log       *)
(* nothing, and the main gameplay handler is next; any other key appends   *)
(* "Invalid entry.", increases nothing and leaves the handler active.      *)
C6_LevelUpChoice ==
    handler = LevelUpEventHandler =>
        \A ev \in AllKeyDownEvents : \A o \in Outcomes(ev) :
            IF ev.sym \in { KeySym.a, KeySym.b, KeySym.c }
            THEN /\ o.calls = << CASE ev.sym = KeySym.a -> "increase_max_hp"
                                   [] ev.sym = KeySym.b -> "increase_power"
                                   [] ev.sym = KeySym.c -> "increase_defense" >>
                 /\ o.message_log = message_log
                 /\ o.next = MainGameEventHandler
            ELSE /\ o.calls = << "add_message" >>
                 /\ o.message_log = Append(message_log, InvalidEntry)
                 /\ o.player = player
                 /\ o.next = LevelUpEventHandler

(* C6 witness: the level-up handler is active with an "Invalid entry."     *)
(* last in the log, and b increases the power and leads to main gameplay.  *)
C6_Witness ==
    /\ handler = LevelUpEventHandler
    /\ Len(message_log) > 0
    /\ message_log[Len(message_log)] = InvalidEntry
    /\ \E o \in Outcomes(KeyDownOf(KeySym.b, {})) :
          o.calls = << "increase_power" >> /\ o.next = MainGameEventHandler

C8_HistoryCursorWraps ==
    handler.kind = "HistoryViewer" =>
        \A sym \in DOMAIN CURSOR_Y_KEYS : \A mod \in Mods :
            \A o \in Outcomes(KeyDownOf(sym, mod)) :
                /\ (CURSOR_Y_KEYS[sym] < 0 /\ handler.cursor = 0)
                       => o.next = [ handler EXCEPT !.cursor = handler.log_length - 1 ]
                /\ (CURSOR_Y_KEYS[sym] > 0 /\ handler.cursor = handler.log_length - 1)
                       => o.next = [ handler EXCEPT !.cursor = 0 ]

(* C8 witness: a viewer over two lines with the cursor on the first line;  *)
(* up moves it to the second line.                                         *)
C8_Witness ==
    /\ handler.kind = "HistoryViewer"
    /\ handler.log_length = 2
    /\ handler.cursor = 0
    /\ \E o \in Outcomes(KeyDownOf(KeySym.UP, {})) : o.next.cursor = 1

(* C9: in the single-target and area targeting handlers, confirming a tile *)
(* (a confirm key at the cursor, or a left click on an in-bounds tile)     *)
(* calls the callback exactly once with that tile's (x, y), and its result *)
(* is the dispatch result unchanged: None performs nothing, advances no    *)
(* turn and leaves the handler active; an action is the one performed.     *)
C9_ConfirmCallsCallback ==
    handler.kind \in { "SingleRangedAttackHandler", "AreaRangedAttackHandler" } =>
        \A ev \in { KeyDownOf(key, mod) : key \in CONFIRM_KEYS, mod \in Mods }
                  \cup { e \in MouseButtonDownEvents :
                             e.button = 1 /\ in_bounds(e.tile[1], e.tile[2]) } :
            \A o \in Outcomes(ev) :
                LET xy == IF ev.type = "KeyDown" THEN mouse_location ELSE ev.tile
                IN  /\ o.callback_args = << xy >>
                    /\ Count(o.calls, "callback") = 1
                    /\ o.ret = o.callback_ret
                    /\ o.ret.is \in { "None", "Action" }
                    /\ o.ret = RetNone => (NoTurn(o) /\ o.next = handler)
                    /\ o.ret.is = "Action" =>
                           (o.performed = o.ret.val /\ o.perform_result # "none")

(* C9 witness: the area handler with the cursor off the player's tile; a   *)
(* confirm key can end with None and the handler kept, or with an action   *)
(* that is performed.                                                      *)
C9_Witness ==
    /\ handler = AreaRangedAttackHandler
    /\ mouse_location # << player.x, player.y >>
    /\ \E o \in Outcomes(KeyDownOf(KeySym.RETURN, {})) :
          o.ret = RetNone /\ o.next = handler
    /\ \E o \in Outcomes(KeyDownOf(KeySym.RETURN, {})) :
          o.ret.is = "Action" /\ o.perform_result = "ok"

(* C10: in the game-over handler a quit event, or Escape under any         *)
(* modifier state, always ends in QuitWithoutSaving with no save file      *)
(* left, whether or not one existed; and whenever QuitWithoutSaving has    *)
(* been raised there is no save file.                                      *)
C10_GameOverQuitRemovesSave ==
    /\ (handler = GameOverEventHandler /\ signal = "none") =>
           \A ev \in { QuitEvent } \cup { KeyDownOf(KeySym.ESCAPE, mod) : mod \in Mods } :
               /\ \A o \in Outcomes(ev) :
                      /\ o.ret = RetRaise("QuitWithoutSaving")
                      /\ o.save_file = "absent"
                      /\ Count(o.calls, "os.path.exists") = 1
               /\ \E o \in Outcomes(ev) : Count(o.calls, "os.remove") = 1
               /\ \E o \in Outcomes(ev) : Count(o.calls, "os.remove") = 0
    /\ signal = "QuitWithoutSaving" =>
           (handler = GameOverEventHandler /\ save_file = "absent")

(* C10 witness: QuitWithoutSaving was raised from the game-over handler.   *)
C10_Witness ==
    /\ signal = "QuitWithoutSaving"
    /\ handler = GameOverEventHandler
    /\ ~player.is_alive

(* C11: in the character screen, which keeps AskUserEventHandler's key     *)
(* handling, a press of a pure modifier key leaves the handler active; any *)
(* other key press and any mouse button press make a new main gameplay     *)
(* handler active; nothing is performed, no turn advances and nothing is   *)
(* logged in either case.                                                  *)
C11_AskUserExit ==
    handler = CharacterScreenEventHandler =>
        \A ev \in AllKeyDownEvents \cup MouseButtonDownEvents :
            \A o \in Outcomes(ev) :
                /\ NoTurn(o)
                /\ o.calls = << >>
                /\ o.message_log = message_log
                /\ o.next = IF ev.type = "KeyDown" /\ ev.sym \in MODIFIER_KEYS
                            THEN CharacterScreenEventHandler
                            ELSE MainGameEventHandler

(* C11 witness: the character screen is open; right Alt keeps it, the      *)
(* letter a and a right click close it.                                    *)
C11_Witness ==
    /\ handler = CharacterScreenEventHandler
    /\ \E o \in Outcomes(KeyDownOf(KeySym.RALT, {"KMOD_RALT"})) :
          o.next = CharacterScreenEventHandler
    /\ \E o \in Outcomes(KeyDownOf(KeySym.a, {})) : o.next = MainGameEventHandler
    /\ \E o \in Outcomes([ type |-> "MouseButtonDown", tile |-> <<0, 0>>, button |-> 3 ]) :
          o.next = MainGameEventHandler

(* C12: while a popup is active, every key press, pure modifier keys       *)
(* included, makes the popup's stored parent, with the state it had when   *)
(* the popup was put over it, the active handler; mouse button presses and *)
(* mouse motion leave the popup active; nothing else changes in either     *)
(* case.  The popup reads neither the key nor the modifiers; every key is  *)
(* tried bare and under right Ctrl.                                        *)
C12_PopupReturnsParent ==
    handler.kind = "PopupMessage" =>
        /\ \A ev \in { KeyDownOf(key, mod) :
                           key \in AllKeys, mod \in { {}, {"KMOD_RCTRL"} } } :
            \A o \in Outcomes(ev) :
              /\ o.next = handler.parent
              /\ o.ret = RetHandler(handler.parent)
              /\ NoTurn(o)
              /\ o.mouse_location = mouse_location
              /\ o.message_log = message_log
        /\ \A ev \in MouseButtonDownEvents \cup MouseMotionEvents :
              \A o \in Outcomes(ev) :
                  /\ o.next = handler
                  /\ NoTurn(o)
                  /\ o.mouse_location = mouse_location
                  /\ o.message_log = message_log

(* C12 witness: a popup over a history viewer of two lines with the cursor *)
(* on the first; left Shift gives that viewer back, a click keeps the      *)
(* popup.                                                                  *)
C12_Witness ==
    /\ handler.kind = "PopupMessage"
    /\ handler.parent.kind = "HistoryViewer"
    /\ handler.parent.log_length = 2
    /\ handler.parent.cursor = 0
    /\ \E o \in Outcomes(KeyDownOf(KeySym.LSHIFT, {"KMOD_LSHIFT"})) :
          o.next = handler.parent
    /\ \E o \in Outcomes([ type |-> "MouseButtonDown", tile |-> <<0, 0>>, button |-> 1 ]) :
          o.next = handler

(* C13: in main gameplay mode every key of the movement table produces a   *)
(* bump action carrying exactly the (dx, dy) of that key, each component   *)
(* in {-1, 0, 1} and not both zero, and that action is the one performed;  *)
(* when it succeeds with the player alive and no level-up pending, the     *)
(* main gameplay handler is the active handler.                            *)
C13_MoveKeysBump ==
    handler = MainGameEventHandler =>
        \A kv \in MOVE_KEYS_ITEMS :
            \A mod \in { {}, {"KMOD_RSHIFT"}, {"KMOD_LCTRL", "KMOD_LALT"} } :
                \A o \in Outcomes(KeyDownOf(kv[1], mod)) :
                    /\ kv[2][1] \in {-1, 0, 1}
                    /\ kv[2][2] \in {-1, 0, 1}
                    /\ kv[2] # <<0, 0>>
                    /\ o.ret = RetAction(BumpAction(kv[2][1], kv[2][2]))
                    /\ o.performed = BumpAction(kv[2][1], kv[2][2])
                    /\ (/\ o.perform_result = "ok"
                        /\ o.player.is_alive
                        /\ ~o.player.requires_level_up)
                           => o.next = MainGameEventHandler

(* C13 witness: the player stands on the second tile in main gameplay      *)
(* mode; the left arrow bumps by (-1, 0), the bump can succeed and move    *)
(* the player back, and the main gameplay handler stays.                   *)
C13_Witness ==
    /\ handler = MainGameEventHandler
    /\ player.x = 1
    /\ \E o \in Outcomes(KeyDownOf(KeySym.LEFT, {})) :
          /\ o.performed = BumpAction(-1, 0)
          /\ o.perform_result = "ok"
          /\ o.player.x = 0
          /\ o.player.is_alive
          /\ ~o.player.requires_level_up
          /\ o.next = MainGameEventHandler

(* How many stat increases were applied. *)
Increases(o) ==
    Count(o.calls, "increase_max_hp") + Count(o.calls, "increase_power")
        + Count(o.calls, "increase_defense")

(* C14: the level-up handler is left only by a, b or c: every mouse button *)
(* press, every mouse motion and every other key press leaves it active    *)
(* and increases nothing, so whenever handle_events returns another        *)
(* handler the event was one of those keys and applied exactly one stat    *)
(* increase.                                                               *)
C14_LevelUpLeftOnlyByChoice ==
    handler = LevelUpEventHandler =>
        \A ev \in { KeyDownOf(key, mod) :
                        key \in AllKeys, mod \in { {}, {"KMOD_LALT"} } }
                  \cup MouseButtonDownEvents \cup MouseMotionEvents \cup { QuitEvent } :
            \A o \in Outcomes(ev) :
                LET choice == ev.type = "KeyDown"
                              /\ ev.sym \in { KeySym.a, KeySym.b, KeySym.c }
                IN  /\ o.next # LevelUpEventHandler => (choice /\ Increases(o) = 1)
                    /\ ~choice => (o.next = LevelUpEventHandler /\ Increases(o) = 0
                                    /\ o.player = player)
                    /\ o.perform_result = "none"

(* C14 witness: the level-up handler is active; a left click on a tile of  *)
(* the map keeps it, and c leaves it with the defense increased.           *)
C14_Witness ==
    /\ handler = LevelUpEventHandler
    /\ \E o \in Outcomes([ type |-> "MouseButtonDown", tile |-> <<0, 0>>, button |-> 1 ]) :
          o.next = LevelUpEventHandler /\ o.calls = << >>
    /\ \E o \in Outcomes(KeyDownOf(KeySym.c, {})) :
          o.next = MainGameEventHandler /\ o.calls = << "increase_defense" >>

(* The keys main gameplay mode binds to nothing. *)
UnboundKeys ==
    AllKeys \ (DOMAIN MOVE_KEYS \cup WAIT_KEYS
               \cup { KeySym.ESCAPE, KeySym.g, KeySym.v, KeySym.i, KeySym.d,
                      KeySym.c, KeySym.SLASH })

(* C15: in main gameplay mode v, i, d, c and / make the history viewer,    *)
(* the inventory-use menu, the inventory-drop menu, the character screen   *)
(* and the look handler the active handler, with no action performed, no   *)
(* turn advanced and nothing logged; a key bound to nothing produces no    *)
(* action, logs nothing and leaves the main gameplay handler active.       *)
C15_MainMenuKeys ==
    handler = MainGameEventHandler =>
        \A mod \in { {}, {"KMOD_RSHIFT"}, {"KMOD_LCTRL", "KMOD_LALT"} } :
            /\ \A key \in { KeySym.v, KeySym.i, KeySym.d, KeySym.c, KeySym.SLASH } :
                  \A o \in Outcomes(KeyDownOf(key, mod)) :
                      /\ o.next =
                             CASE key = KeySym.v ->
                                     [ kind |-> "HistoryViewer",
                                       log_length |-> Len(message_log),
                                       cursor |-> Len(message_log) - 1 ]
                               [] key = KeySym.i -> InventoryActivateHandler
                               [] key = KeySym.d -> InventoryDropHandler
                               [] key = KeySym.c -> CharacterScreenEventHandler
                               [] key = KeySym.SLASH -> LookHandler
                      /\ NoTurn(o)
                      /\ o.calls = << >>
                      /\ o.message_log = message_log
            /\ \A key \in UnboundKeys :
                  \A o \in Outcomes(KeyDownOf(key, mod)) :
                      /\ o.ret = RetNone
                      /\ o.next = MainGameEventHandler
                      /\ NoTurn(o)
                      /\ o.calls = << >>
                      /\ o.message_log = message_log
                      /\ o.mouse_location = mouse_location

(* C15 witness: main gameplay mode with one message logged and an item     *)
(* carried; v opens a viewer over that one line, d the drop menu, and Tab  *)
(* does nothing.                                                           *)
C15_Witness ==
    /\ handler = MainGameEventHandler
    /\ Len(message_log) = 1
    /\ Len(player.items) = 1
    /\ \E o \in Outcomes(KeyDownOf(KeySym.v, {})) :
          o.next.kind = "HistoryViewer" /\ o.next.log_length = 1 /\ o.next.cursor = 0
    /\ \E o \in Outcomes(KeyDownOf(KeySym.d, {})) : o.next = InventoryDropHandler
    /\ \E o \in Outcomes(KeyDownOf(KeySym.TAB, {})) :
          o.next = MainGameEventHandler /\ o.ret = RetNone

(* C16: in a tile-selection handler a confirm key calls on_index_selected  *)
(* once with the cursor position; a mouse button press calls it once with  *)
(* the clicked tile if the button is the left one and the tile is on the   *)
(* map, and otherwise selects nothing and makes the main gameplay handler  *)
(* active with nothing performed.  In the look handler a selection makes   *)
(* the main gameplay handler active with nothing performed.                *)
C16_SelectIndexConfirm ==
    handler.kind \in SelectIndexKinds =>
        /\ \A key \in CONFIRM_KEYS : \A mod \in Mods :
              \A o \in Outcomes(KeyDownOf(key, mod)) :
                  /\ o.index_selected = << mouse_location >>
                  /\ handler = LookHandler =>
                         (o.ret = RetHandler(MainGameEventHandler)
                          /\ o.next = MainGameEventHandler /\ NoTurn(o))
        /\ \A ev \in MouseButtonDownEvents : \A o \in Outcomes(ev) :
              IF ev.button = 1 /\ in_bounds(ev.tile[1], ev.tile[2])
              THEN /\ o.index_selected = << ev.tile >>
                   /\ handler = LookHandler =>
                          (o.ret = RetHandler(MainGameEventHandler)
                           /\ o.next = MainGameEventHandler /\ NoTurn(o))
              ELSE /\ o.index_selected = << >>
                   /\ o.callback_args = << >>
                   /\ o.next = MainGameEventHandler
                   /\ NoTurn(o)

(* C16 witness: the look handler with the cursor on the second tile; a     *)
(* confirm key selects the cursor's tile, a left click the clicked tile, a *)
(* right click and a click off the map select nothing and exit.            *)
C16_Witness ==
    /\ handler = LookHandler
    /\ mouse_location = <<1, 0>>
    /\ \E o \in Outcomes(KeyDownOf(KeySym.KP_ENTER, {})) :
          o.index_selected = << <<1, 0>> >> /\ o.next = MainGameEventHandler
    /\ \E o \in Outcomes([ type |-> "MouseButtonDown", tile |-> <<0, 0>>, button |-> 1 ]) :
          o.index_selected = << <<0, 0>> >>
    /\ \E o \in Outcomes([ type |-> "MouseButtonDown", tile |-> <<0, 0>>, button |-> 3 ]) :
          o.index_selected = << >> /\ o.next = MainGameEventHandler
    /\ \E o \in Outcomes([ type |-> "MouseButtonDown", tile |-> <<MapWidth, 0>>, button |-> 1 ]) :
          o.index_selected = << >> /\ o.next = MainGameEventHandler

(* C17: whenever a tile-selection handler becomes the active handler from  *)
(* a handler of another class, that is whenever one is constructed, the    *)
(* shared mouse_location equals the player's (x, y) right afterwards,      *)
(* wherever the cursor was before.                                         *)
C17_CursorStartsAtPlayer ==
    [][ (handler'.kind \in SelectIndexKinds /\ handler.kind \notin SelectIndexKinds)
            => mouse_location' = << player'.x, player'.y >> ]_vars

(* C17 witness: the inventory-use menu is open with the cursor off the     *)
(* player's tile, and a chosen item opens the single-target handler with   *)
(* the cursor on the player.                                               *)
C17_Witness ==
    /\ handler = InventoryActivateHandler
    /\ mouse_location # << player.x, player.y >>
    /\ \E o \in Outcomes(KeyDownOf(KeySym.a, {})) :
          /\ o.next = SingleRangedAttackHandler
          /\ o.mouse_location = << player.x, player.y >>

(* C18: with the player on the map, the shared mouse_location is always a  *)
(* tile of the map, after any sequence of mouse motion, tile-selection     *)
(* entries and cursor keys under any modifiers; a mouse motion onto a tile *)
(* off the map leaves it unchanged, one onto a tile of the map sets it.    *)
C18_CursorOnMap ==
    /\ in_bounds(player.x, player.y)
    /\ in_bounds(mouse_location[1], mouse_location[2])
    /\ (signal = "none" /\ handler.kind # "PopupMessage") =>
           \A ev \in MouseMotionEvents : \A o \in Outcomes(ev) :
               o.mouse_location = IF in_bounds(ev.tile[1], ev.tile[2])
                                  THEN ev.tile
                                  ELSE mouse_location
    /\ handler.kind \in SelectIndexKinds =>
           \A key \in DOMAIN MOVE_KEYS :
               \A mod \in { {}, {"KMOD_LSHIFT", "KMOD_LCTRL", "KMOD_LALT"} } :
                   \A o \in Outcomes(KeyDownOf(key, mod)) :
                       in_bounds(o.mouse_location[1], o.mouse_location[2])

(* C18 witness: in a targeting handler the cursor is on the last tile of   *)
(* the map with the player elsewhere, and a motion onto the tile beyond    *)
(* the right edge leaves it there.                                         *)
C18_Witness ==
    /\ handler = AreaRangedAttackHandler
    /\ mouse_location = << MapWidth - 1, MapHeight - 1 >>
    /\ player.x = 0
    /\ \E o \in Outcomes([ type |-> "MouseMotion", tile |-> <<MapWidth, 0>> ]) :
          o.mouse_location = mouse_location

(* C19: the game-over handler is absorbing: in every state where it is the *)
(* active handler, every event either ends the process (Escape, quit) or   *)
(* leaves it the active handler, and no event performs an action, runs an  *)
(* enemy turn or changes the player.                                       *)
C19_GameOverAbsorbing ==
    (handler = GameOverEventHandler /\ signal = "none") =>
        \A ev \in { KeyDownOf(key, mod) :
                        key \in AllKeys, mod \in { {}, {"KMOD_LSHIFT"} } }
                  \cup MouseButtonDownEvents \cup MouseMotionEvents \cup { QuitEvent } :
            \A o \in Outcomes(ev) :
                /\ NoTurn(o)
                /\ Count(o.calls, "update_fov") = 0
                /\ IF ev.type = "Quit" \/ (ev.type = "KeyDown" /\ ev.sym = KeySym.ESCAPE)
                   THEN o.ret.is = "Raise"
                   ELSE o.ret = RetNone /\ o.next = GameOverEventHandler

(* C19 witness: the game-over handler is active after a failed action was  *)
(* logged; a letter, a movement key and a click all leave it active.       *)
C19_Witness ==
    /\ handler = GameOverEventHandler
    /\ signal = "none"
    /\ Len(message_log) > 0
    /\ \E o \in Outcomes(KeyDownOf(KeySym.a, {})) : o.next = GameOverEventHandler
    /\ \E o \in Outcomes(KeyDownOf(KeySym.UP, {})) :
          o.next = GameOverEventHandler /\ o.perform_result = "none"
    /\ \E o \in Outcomes([ type |-> "MouseButtonDown", tile |-> <<0, 0>>, button |-> 1 ]) :
          o.next = GameOverEventHandler

(* C20 as claimed: while the history viewer is open over a log of L lines  *)
(* captured at opening, L >= 0, the cursor satisfies                       *)
(* min(0, L - 1) <= cursor <= L - 1 after any sequence of Up, Down,        *)
(* PageUp, PageDown, Home and End, so it stays -1 over an empty log, and   *)
(* none of these keys changes L.                                           *)
C20_HistoryCursorInRange ==
    handler.kind = "HistoryViewer" =>
        /\ Min(0, handler.log_length - 1) <= handler.cursor
        /\ handler.cursor <= handler.log_length - 1
        /\ \A key \in DOMAIN CURSOR_Y_KEYS \cup { KeySym.HOME, KeySym.END } :
              \A o \in Outcomes(KeyDownOf(key, {})) :
                  /\ o.next.kind = "HistoryViewer"
                  /\ o.next.log_length = handler.log_length

====
